---- MODULE Spec2Model ----
(***************************************************************************)
(* Model of the aglass edge-camera core: the profile store on its shared   *)
(* SQLite connection (src/src/store), the profile handlers that drive it   *)
(* (src/src/api/routes_profile.py), the capture loop and its worker        *)
(* threads (src/src/pipeline/capture_loop.py) and the camera adapter as    *)
(* used through the autofocus controller (src/src/camera).                 *)
(*                                                                         *)
(* Threads are interleaved at the granularity of one statement on the      *)
(* shared connection, one blocking adapter call, or one statement of the   *)
(* worker's tick.                                                          *)
(***************************************************************************)
EXTENDS Integers, FiniteSets, Sequences, TLC

(* ------------------------------ bounds -------------------------------- *)

\* number of profile ids that create can generate (uuid4 values, never reused)
NumProfiles == 2

\* number of store statements that may raise during one run
MaxFaults == 1

\* number of ticks the capture workers begin during one run
MaxTicks == 2

\* number of successful start() calls during one run
MaxStarts == 2

\* number of ticks that raise during one run
MaxErrors == 1

\* capacity of the inference queue of the run (queue.Queue(maxsize=...))
QueueCapacity == 1

\* largest short timeout passed to trigger_one_shot_af, in hundredths of a
\* second
MaxTimeout == 12

\* longest time one capture_metadata() call of a poll takes, in hundredths
\* of a second
MaxPollDuration == 3

\* image timestamps lie in the minutes FirstMinute..MaxMinute of one hour
FirstMinute == 8

MaxMinute == 10

\* largest minutes_ago passed to query_images_since
MaxMinutesAgo == 2

\* rows the images table holds at most in the query specification
MaxImages == 3

(* ----------------------------- universes ------------------------------ *)

ProfileIds == 1..NumProfiles

\* every generated id and one that is never generated
RequestIds == 1..(NumProfiles + 1)

\* caller threads (request handlers, scripts)
Callers == {"c1", "c2"}

\* the caller of the sequential specification
SeqCallers == {"c1"}

\* capture worker threads, in the order start() creates them
Workers == 1..MaxStarts

\* interval_sec values in tenths of a second: the default, and one longer
\* than the join timeout of stop()
DefaultInterval == 15

LongInterval == 100

Intervals == {DefaultInterval, LongInterval}

\* self._thread.join(timeout=5.0), in tenths of a second
JoinTimeout == 50

NoCall == [op |-> "none", id |-> 0, lens |-> "none"]

NoResp == [op |-> "none", id |-> 0, status |-> "none"]

\* the lens position the simulator reports (cam_base.py 114)
MockLensPosition == "5.0"

\* what a read of LensPosition from the adapter's metadata can give
\* in lock_focus: a position, None, or (hardware only) the read raising
LensReadings(mock) == IF mock THEN {MockLensPosition} ELSE {MockLensPosition, "none", "raise"}

VARIABLES
  profiles,     \* profiles table as seen through the shared connection
  committed,    \* profiles table as last committed
  next_id,      \* next profile id create will generate
  faults,       \* store statements that have raised so far
  pc,           \* position of each caller thread
  call,         \* operation each caller is executing
  resp,         \* the result most recently returned to a caller
  use_mock,     \* AFController._use_mock: simulator or hardware adapter
  is_initialized, \* AFController._is_initialized
  af_mode,      \* adapter _af_mode
  locked_lens_position, \* adapter _locked_lens_position
  picam_controls, \* AfMode and LensPosition last passed to picam.set_controls
  af_controller, \* CaptureLoop.af_controller is attached (not None)
  is_running,   \* CaptureLoop._is_running
  interval_sec, \* CaptureLoop.interval_sec
  thread,       \* CaptureLoop._thread: the worker last started, 0 for None
  start_time,   \* CaptureLoop._start_time: the start() that set it, 0 for None
  lock,         \* CaptureLoop._lock: the caller holding it, or "none"
  total_count,  \* CaptureLoop._total_count
  errors,       \* CaptureLoop._errors
  last_capture_time, \* CaptureLoop._last_capture_time: a tick's ts, 0 for None
  inference_queue, \* number of items in CaptureLoop.inference_queue
  images,       \* rows of the images table
  side_files,   \* ts of the records whose JSON side-file has been written
  ticks,        \* ticks begun so far (the clock the ts values are read from)
  wpc,          \* position of each worker thread
  wts,          \* ts of the tick each worker is executing
  wprofile,     \* profile_id each worker read for its tick, 0 for "unknown"
  wsleep        \* duration of the sleep each worker is in, 0 if not sleeping

store_vars == <<profiles, committed, next_id, faults>>

caller_vars == <<pc, call, resp>>

camera_vars == <<use_mock, is_initialized, af_mode, locked_lens_position, picam_controls>>

loop_vars == <<af_controller, is_running, interval_sec, thread, start_time, lock, total_count,
               errors, last_capture_time, inference_queue, images, side_files, ticks>>

worker_vars == <<wpc, wts, wprofile, wsleep>>

vars == <<profiles, committed, next_id, faults, pc, call, resp,
          use_mock, is_initialized, af_mode, locked_lens_position, picam_controls,
          af_controller, is_running, interval_sec, thread, start_time, lock, total_count,
          errors, last_capture_time, inference_queue, images, side_files, ticks,
          wpc, wts, wprofile, wsleep>>

(* --------------------------- profiles table --------------------------- *)

\* ids of the rows of tbl with is_current = 1
CurrentRows(tbl) == {i \in DOMAIN tbl : tbl[i].is_current}

\* INSERT INTO profiles ... (repo.py 51-63)
InsertRow(tbl, id, row) == [i \in (DOMAIN tbl) \cup {id} |-> IF i = id THEN row ELSE tbl[i]]

ClearAllCurrentNoop(tbl) == tbl

\* UPDATE profiles SET is_current = 0
ClearAllCurrent(tbl) == [i \in DOMAIN tbl |-> [tbl[i] EXCEPT !.is_current = FALSE]]

\* UPDATE profiles SET is_current = 1 WHERE profile_id = ?
SetTargetCurrent(tbl, id) == [i \in DOMAIN tbl |-> IF i = id THEN [tbl[i] EXCEPT !.is_current = TRUE] ELSE tbl[i]]

\* DELETE FROM profiles WHERE profile_id = ?
DeleteRow(tbl, id) == [i \in (DOMAIN tbl) \ {id} |-> tbl[i]]

\* the rows get_current_profile's fetchone can return (no ORDER BY: any row
\* with is_current = 1), or 0 for None
GetCurrentResults(tbl) == IF CurrentRows(tbl) = {} THEN {0} ELSE CurrentRows(tbl)

\* the ids a caller can pass: the id of a profile it can have seen (stored,
\* or visible through the connection) and an id that was never generated
KnownIds == (DOMAIN profiles) \cup (DOMAIN committed) \cup {NumProfiles + 1}

EmptyTable == [i \in {} |-> [is_current |-> FALSE, lens_position |-> "none"]]

(* ------------------------------- Init --------------------------------- *)

\* CaptureLoop.__init__ as get_capture_loop() calls it: no controller, the
\* default interval, an empty queue, no thread
LoopInit ==
  /\ af_controller = FALSE
  /\ is_running = FALSE
  /\ interval_sec = DefaultInterval
  /\ thread = 0
  /\ start_time = 0
  /\ lock = "none"
  /\ total_count = 0
  /\ errors = 0
  /\ last_capture_time = 0
  /\ inference_queue = 0
  /\ images = {}
  /\ side_files = {}
  /\ ticks = 0
  /\ wpc = [w \in Workers |-> "unborn"]
  /\ wts = [w \in Workers |-> 0]
  /\ wprofile = [w \in Workers |-> 0]
  /\ wsleep = [w \in Workers |-> 0]

Init ==
  /\ LoopInit
  /\ profiles = EmptyTable
  /\ committed = EmptyTable
  /\ next_id = 1
  /\ faults = 0
  /\ pc = [t \in Callers |-> "idle"]
  /\ call = [t \in Callers |-> NoCall]
  /\ resp = NoResp
  /\ use_mock \in BOOLEAN
  /\ is_initialized \in (IF use_mock THEN {TRUE} ELSE BOOLEAN)
  /\ af_mode = "auto"
  /\ locked_lens_position = "none"
  /\ picam_controls = [AfMode |-> "Auto", LensPosition |-> "none"]

\* picam.set_controls with an AfMode and a LensPosition; the simulator has
\* no picam
SetControls(mode, lens) ==
  IF use_mock THEN picam_controls ELSE [AfMode |-> mode, LensPosition |-> lens]

\* the set_controls of lock_focus: Manual at the position read, Manual
\* alone when no position was read, nothing when the read raised
LockControls(reading) ==
  IF reading = "raise" THEN picam_controls
  ELSE SetControls("Manual", IF reading = "none" THEN picam_controls.LensPosition ELSE reading)

\* a handler rejects a request before doing anything
Reject(t, op, id, status) ==
  /\ pc' = [pc EXCEPT ![t] = "idle"]
  /\ resp' = [op |-> op, id |-> id, status |-> status]
  /\ call' = [call EXCEPT ![t] = NoCall]

\* a caller returns from its operation with a result
Return(t, status) ==
  /\ pc' = [pc EXCEPT ![t] = "idle"]
  /\ resp' = [op |-> call[t].op, id |-> call[t].id, status |-> status]
  /\ call' = [call EXCEPT ![t] = NoCall]

Goto(t, label) ==
  /\ pc' = [pc EXCEPT ![t] = label]
  /\ UNCHANGED <<call, resp>>

(* ----------------- ProfileRepository.set_current_profile -------------- *)

\* a direct call of set_current_profile(id)
SetCurrentCall(t, id) ==
  /\ pc[t] = "idle"
  /\ id \in KnownIds
  /\ pc' = [pc EXCEPT ![t] = "sc_check"]
  /\ call' = [call EXCEPT ![t] = [op |-> "set_current", id |-> id, lens |-> "none"]]
  /\ UNCHANGED <<resp, store_vars, camera_vars, loop_vars, worker_vars>>

\* select re-applies the stored lens position only on an initialized
\* hardware adapter (routes_profile.py 182-185: camera.picam is None on the
\* simulator)
ReapplyNeeded(lens) == is_initialized /\ lens # "none" /\ ~use_mock

\* what the caller of set_current_profile does with its result:
\* create ignores it (routes_profile.py 104), select reports 500 on False
\* (routes_profile.py 178-179)
AfterSetCurrent(t, ok) ==
  IF call[t].op = "create" THEN Return(t, "200")
  ELSE IF call[t].op = "select"
       THEN IF ~ok THEN Return(t, "500")
            ELSE IF ReapplyNeeded(call[t].lens) THEN Goto(t, "sel_reapply")
            ELSE Return(t, "200")
       ELSE Return(t, IF ok THEN "true" ELSE "false")

ProfileExistsAlways(tbl, id) == TRUE

\* get_profile_by_id(profile_id) finds a row
ProfileExists(tbl, id) == id \in DOMAIN tbl

\* profile = self.get_profile_by_id(profile_id); if not profile: return False
ScCheck(t) ==
  /\ pc[t] = "sc_check"
  /\ IF ProfileExists(profiles, call[t].id)
     THEN Goto(t, "sc_clear")
     ELSE AfterSetCurrent(t, FALSE)
  /\ UNCHANGED <<store_vars, camera_vars, loop_vars, worker_vars>>

ScClear(t) ==
  /\ pc[t] = "sc_clear"
  /\ profiles' = ClearAllCurrent(profiles)
  /\ Goto(t, "sc_set")
  /\ UNCHANGED <<committed, next_id, faults, camera_vars, loop_vars, worker_vars>>

ScSet(t) ==
  /\ pc[t] = "sc_set"
  /\ profiles' = SetTargetCurrent(profiles, call[t].id)
  /\ Goto(t, "sc_commit")
  /\ UNCHANGED <<committed, next_id, faults, camera_vars, loop_vars, worker_vars>>

\* self.conn.commit(); return True
ScCommit(t) ==
  /\ pc[t] = "sc_commit"
  /\ committed' = profiles
  /\ AfterSetCurrent(t, TRUE)
  /\ UNCHANGED <<profiles, next_id, faults, camera_vars, loop_vars, worker_vars>>

\* a statement of set_current_profile raises: rollback, return False
ScFail(t) ==
  /\ pc[t] \in {"sc_clear", "sc_set", "sc_commit"}
  /\ faults < MaxFaults
  /\ faults' = faults + 1
  /\ profiles' = committed
  /\ AfterSetCurrent(t, FALSE)
  /\ UNCHANGED <<committed, next_id, camera_vars, loop_vars, worker_vars>>

(* ---------------------- adapter autofocus methods --------------------- *)

\* one_shot_af(timeout=3.0): the simulator focuses after 0.8 s; the hardware
\* adapter reports Focused with its lens position before the deadline, or
\* times out, or raises
TriggerOutcomes(mock) ==
  IF mock THEN {[success |-> TRUE, lens |-> MockLensPosition]}
  ELSE {[success |-> TRUE, lens |-> MockLensPosition], [success |-> FALSE, lens |-> "none"]}

LockFocusUnpinned(reading, mode, locked) ==
  [af_mode |-> "locked", locked |-> locked, result |-> reading]

\* lock_focus with the metadata read giving `reading`: the adapter's
\* (_af_mode, _locked_lens_position) afterwards and the value returned
LockFocus(reading, mode, locked) ==
  IF reading = "raise"
  THEN [af_mode |-> mode, locked |-> locked, result |-> "none"]
  ELSE IF reading # "none"
  THEN [af_mode |-> "locked", locked |-> reading, result |-> reading]
  ELSE [af_mode |-> "locked", locked |-> locked, result |-> "none"]

(* ------------------------ create_profile handler ---------------------- *)

\* if not af_controller.is_initialized: 503; else enter trigger_one_shot_af
CreateBegin(t) ==
  /\ pc[t] = "idle"
  /\ next_id <= NumProfiles
  /\ IF is_initialized
     THEN /\ pc' = [pc EXCEPT ![t] = "cr_trigger"]
          /\ call' = [call EXCEPT ![t] = [op |-> "create", id |-> 0, lens |-> "none"]]
          /\ UNCHANGED resp
     ELSE Reject(t, "create", 0, "503")
  /\ UNCHANGED <<store_vars, camera_vars, loop_vars, worker_vars>>

\* trigger_one_shot_af returns; on failure 500, else enter lock_focus
CreateTriggerEnd(t) ==
  /\ pc[t] = "cr_trigger"
  /\ \E o \in TriggerOutcomes(use_mock) :
       IF o.success
       THEN /\ pc' = [pc EXCEPT ![t] = "cr_lock"]
            /\ call' = [call EXCEPT ![t].lens = o.lens]
            /\ UNCHANGED resp
       ELSE Return(t, "500")
  /\ picam_controls' = SetControls("Auto", "none")
  /\ UNCHANGED <<store_vars, use_mock, is_initialized, af_mode, locked_lens_position,
                 loop_vars, worker_vars>>

\* lock_focus returns; locked_pos falls back to the trigger's position; the
\* FocusProfile is built with a fresh profile_id
CreateLockEnd(t) ==
  /\ pc[t] = "cr_lock"
  /\ \E reading \in LensReadings(use_mock) :
       LET r == LockFocus(reading, af_mode, locked_lens_position) IN
       /\ af_mode' = r.af_mode
       /\ locked_lens_position' = r.locked
       /\ picam_controls' = LockControls(reading)
       /\ call' = [call EXCEPT ![t] =
                    [op |-> "create", id |-> next_id,
                     lens |-> IF r.result = "none" THEN call[t].lens ELSE r.result]]
  /\ next_id' = next_id + 1
  /\ pc' = [pc EXCEPT ![t] = "cr_insert"]
  /\ UNCHANGED <<resp, profiles, committed, faults, use_mock, is_initialized,
                 loop_vars, worker_vars>>

\* the row save_profile inserts for the profile create built
\* (is_current=True, routes_profile.py 87-97)
NewProfileRow(lens) == [is_current |-> TRUE, lens_position |-> lens]

\* save_profile: INSERT INTO profiles
SaveInsert(t) ==
  /\ pc[t] = "cr_insert"
  /\ profiles' = InsertRow(profiles, call[t].id, NewProfileRow(call[t].lens))
  /\ Goto(t, "cr_commit")
  /\ UNCHANGED <<committed, next_id, faults, camera_vars, loop_vars, worker_vars>>

\* save_profile: commit, return True; create goes on to set_current_profile
SaveCommit(t) ==
  /\ pc[t] = "cr_commit"
  /\ committed' = profiles
  /\ Goto(t, "sc_check")
  /\ UNCHANGED <<profiles, next_id, faults, camera_vars, loop_vars, worker_vars>>

RolledBackNothing(connection, durable) == connection

\* self.conn.rollback(): the connection shows the last committed table
RolledBack(connection, durable) == durable

\* a statement of save_profile raises: rollback, return False, create: 500
SaveFail(t) ==
  /\ pc[t] \in {"cr_insert", "cr_commit"}
  /\ faults < MaxFaults
  /\ faults' = faults + 1
  /\ profiles' = RolledBack(profiles, committed)
  /\ Return(t, "500")
  /\ UNCHANGED <<committed, next_id, camera_vars, loop_vars, worker_vars>>

(* ------------------------ select_profile handler ---------------------- *)

\* profile = repo.get_profile_by_id(profile_id); 404 if missing; else
\* set_current_profile is entered
SelectBegin(t, id) ==
  /\ pc[t] = "idle"
  /\ id \in KnownIds
  /\ IF id \in DOMAIN profiles
     THEN /\ pc' = [pc EXCEPT ![t] = "sc_check"]
          /\ call' = [call EXCEPT ![t] =
                       [op |-> "select", id |-> id, lens |-> profiles[id].lens_position]]
          /\ UNCHANGED resp
     ELSE Reject(t, "select", id, "404")
  /\ UNCHANGED <<store_vars, camera_vars, loop_vars, worker_vars>>

\* how camera.picam.set_controls(Manual, LensPosition) can end
ReapplyOutcomes == {"ok", "raise"}

ReapplyStatusFatal(outcome) == IF outcome = "raise" THEN "500" ELSE "200"

\* the except clause around the re-apply only logs; select answers success
ReapplyStatus(outcome) == "200"

\* camera.picam.set_controls(Manual, LensPosition) returns or raises: 200
SelectReapply(t) ==
  /\ pc[t] = "sel_reapply"
  /\ \E o \in ReapplyOutcomes :
       /\ picam_controls' = IF o = "ok" THEN SetControls("Manual", call[t].lens)
                            ELSE picam_controls
       /\ Return(t, ReapplyStatus(o))
  /\ UNCHANGED <<store_vars, use_mock, is_initialized, af_mode, locked_lens_position,
                 loop_vars, worker_vars>>

(* ------------------------ delete_profile handler ---------------------- *)

DeleteAllowedAlways(current, id) == TRUE

\* whether delete's current-check lets the request through, given the row
\* get_current_profile returned (0 for None)
DeleteAllowed(current, id) == ~(current # 0 /\ current = id)

\* current = repo.get_current_profile(); 400 if it is the target
DeleteCheck(t, id) ==
  /\ pc[t] = "idle"
  /\ id \in KnownIds
  /\ \E current \in GetCurrentResults(profiles) :
       IF DeleteAllowed(current, id)
       THEN /\ pc' = [pc EXCEPT ![t] = "del_exec"]
            /\ call' = [call EXCEPT ![t] = [op |-> "delete", id |-> id, lens |-> "none"]]
            /\ UNCHANGED resp
       ELSE Reject(t, "delete", id, "400")
  /\ UNCHANGED <<store_vars, camera_vars, loop_vars, worker_vars>>

\* repo.delete_profile: DELETE FROM profiles WHERE profile_id = ?
DeleteExec(t) ==
  /\ pc[t] = "del_exec"
  /\ profiles' = DeleteRow(profiles, call[t].id)
  /\ Goto(t, "del_commit")
  /\ UNCHANGED <<committed, next_id, faults, camera_vars, loop_vars, worker_vars>>

\* repo.delete_profile: commit, return True; handler: 200
DeleteCommit(t) ==
  /\ pc[t] = "del_commit"
  /\ committed' = profiles
  /\ Return(t, "200")
  /\ UNCHANGED <<profiles, next_id, faults, camera_vars, loop_vars, worker_vars>>

\* a statement of repo.delete_profile raises: rollback, return False: 500
DeleteFail(t) ==
  /\ pc[t] \in {"del_exec", "del_commit"}
  /\ faults < MaxFaults
  /\ faults' = faults + 1
  /\ profiles' = committed
  /\ Return(t, "500")
  /\ UNCHANGED <<committed, next_id, camera_vars, loop_vars, worker_vars>>

(* ----------------------- CaptureLoop.start / stop --------------------- *)

\* whether thread w has been started and has not finished (is_alive())
IsAlive(w) == w # 0 /\ wpc[w] \notin {"unborn", "done"}

\* POST /capture/start: attach the controller if the loop has none; 400 if
\* the loop is running; else call loop.start(interval_sec)
StartCapture(t, iv) ==
  /\ pc[t] = "idle"
  /\ thread < MaxStarts
  /\ af_controller' = TRUE
  /\ IF is_running
     THEN Reject(t, "start", 0, "400")
     ELSE /\ pc' = [pc EXCEPT ![t] = "start_call"]
          /\ call' = [call EXCEPT ![t] = [op |-> "start", id |-> 0, lens |-> "none", interval |-> iv]]
          /\ UNCHANGED resp
  /\ UNCHANGED <<store_vars, camera_vars, is_running, interval_sec, thread, start_time, lock,
                 total_count, errors, last_capture_time, inference_queue, images, side_files, ticks,
                 worker_vars>>

\* what a call of start() or stop() answers: the method's result when it is
\* called directly; through the routes True is 200 and False is 500
Answer(t, ok) ==
  IF call[t].op \in {"start", "stop"}
  THEN (IF ok THEN "200" ELSE "500")
  ELSE (IF ok THEN "true" ELSE "false")

\* a direct call of loop.start(interval_sec)
StartCall(t, iv) ==
  /\ pc[t] = "idle"
  /\ thread < MaxStarts
  /\ pc' = [pc EXCEPT ![t] = "start_call"]
  /\ call' = [call EXCEPT ![t] = [op |-> "loop.start", id |-> 0, lens |-> "none", interval |-> iv]]
  /\ UNCHANGED <<resp, store_vars, camera_vars, loop_vars, worker_vars>>

\* a direct call of loop.stop()
StopCall(t) ==
  /\ pc[t] = "idle"
  /\ pc' = [pc EXCEPT ![t] = "stop_call"]
  /\ call' = [call EXCEPT ![t] = [op |-> "loop.stop", id |-> 0, lens |-> "none"]]
  /\ UNCHANGED <<resp, store_vars, camera_vars, loop_vars, worker_vars>>

StartRefusedNever(running) == FALSE

\* if self._is_running: return False
StartRefused(running) == running

StopRefusedNever(running) == FALSE

\* if not self._is_running: return False
StopRefused(running) == ~running

StartResetsCount(t) ==
  /\ pc[t] = "start_call"
  /\ lock = "none"
  /\ IF StartRefused(is_running)
     THEN /\ Return(t, Answer(t, FALSE))
          /\ UNCHANGED <<is_running, interval_sec, thread, start_time, wpc, total_count>>
     ELSE /\ thread < MaxStarts
          /\ interval_sec' = call[t].interval
          /\ is_running' = TRUE
          /\ start_time' = thread + 1
          /\ thread' = thread + 1
          /\ wpc' = [wpc EXCEPT ![thread + 1] = "top"]
          /\ total_count' = 0
          /\ Return(t, Answer(t, TRUE))
  /\ UNCHANGED <<store_vars, camera_vars, af_controller, lock, errors,
                 last_capture_time, inference_queue, images, side_files, ticks, wts, wprofile, wsleep>>

\* CaptureLoop.start under self._lock: False (500) if running; else set the
\* interval and the flag and start a new worker thread; True (200)
Start(t) ==
  /\ pc[t] = "start_call"
  /\ lock = "none"
  /\ IF StartRefused(is_running)
     THEN /\ Return(t, Answer(t, FALSE))
          /\ UNCHANGED <<is_running, interval_sec, thread, start_time, wpc>>
     ELSE /\ thread < MaxStarts
          /\ interval_sec' = call[t].interval
          /\ is_running' = TRUE
          /\ start_time' = thread + 1
          /\ thread' = thread + 1
          /\ wpc' = [wpc EXCEPT ![thread + 1] = "top"]
          /\ Return(t, Answer(t, TRUE))
  /\ UNCHANGED <<store_vars, camera_vars, af_controller, lock, total_count, errors,
                 last_capture_time, inference_queue, images, side_files, ticks, wts, wprofile, wsleep>>

\* POST /capture/stop: 400 if the loop is not running; else call loop.stop()
StopCapture(t) ==
  /\ pc[t] = "idle"
  /\ IF ~is_running
     THEN Reject(t, "stop", 0, "400")
     ELSE /\ pc' = [pc EXCEPT ![t] = "stop_call"]
          /\ call' = [call EXCEPT ![t] = [op |-> "stop", id |-> 0, lens |-> "none"]]
          /\ UNCHANGED resp
  /\ UNCHANGED <<store_vars, camera_vars, loop_vars, worker_vars>>

\* CaptureLoop.stop takes self._lock: False (500) if not running; else clear
\* the flag and, if the thread is alive, join it; True (200)
Stop(t) ==
  /\ pc[t] = "stop_call"
  /\ lock = "none"
  /\ IF StopRefused(is_running)
     THEN /\ Return(t, Answer(t, FALSE))
          /\ UNCHANGED <<is_running, lock>>
     ELSE /\ is_running' = FALSE
          /\ IF IsAlive(thread)
             THEN /\ lock' = t
                  /\ Goto(t, "joining")
             ELSE /\ Return(t, Answer(t, TRUE))
                  /\ UNCHANGED lock
  /\ UNCHANGED <<store_vars, camera_vars, af_controller, interval_sec, thread, start_time, total_count,
                 errors, last_capture_time, inference_queue, images, side_files, ticks, worker_vars>>

\* join returns because the thread has finished; stop returns True
StopJoined(t) ==
  /\ pc[t] = "joining"
  /\ ~IsAlive(thread)
  /\ lock' = "none"
  /\ Return(t, Answer(t, TRUE))
  /\ UNCHANGED <<store_vars, camera_vars, af_controller, is_running, interval_sec, thread, start_time,
                 total_count, errors, last_capture_time, inference_queue, images, side_files, ticks,
                 worker_vars>>

\* a worker can stay alive for longer than the join timeout while it sleeps
\* an interval longer than the timeout or waits for the hardware to capture
CanOutlastJoin(w) ==
  \/ wpc[w] = "sleep" /\ wsleep[w] > JoinTimeout
  \/ wpc[w] = "capturing" /\ ~use_mock

\* join(timeout=5.0) expires with the thread still alive; stop returns True
StopJoinTimeout(t) ==
  /\ pc[t] = "joining"
  /\ CanOutlastJoin(thread)
  /\ lock' = "none"
  /\ Return(t, Answer(t, TRUE))
  /\ UNCHANGED <<store_vars, camera_vars, af_controller, is_running, interval_sec, thread, start_time,
                 total_count, errors, last_capture_time, inference_queue, images, side_files, ticks,
                 worker_vars>>

(* ------------ CaptureLoop._capture_loop and _capture_one -------------- *)

\* whether one more tick of the run may raise
MayRaise == errors + Cardinality({w \in Workers : wpc[w] = "error"}) < MaxErrors

WGoto(w, label) == wpc' = [wpc EXCEPT ![w] = label]

WLoopTestAlways(running) == TRUE

\* while self._is_running
WLoopTest(running) == running

\* the loop test; if it passes, the tick begins: ts is read from the clock
\* and get_image_dir creates the directory, or raises
WTop(w) ==
  /\ wpc[w] = "top"
  /\ IF WLoopTest(is_running)
     THEN /\ ticks < MaxTicks
          /\ ticks' = ticks + 1
          /\ wts' = [wts EXCEPT ![w] = ticks + 1]
          /\ \/ WGoto(w, "profile")
             \/ MayRaise /\ WGoto(w, "error")
     ELSE /\ WGoto(w, "done")
          /\ UNCHANGED <<ticks, wts>>
  /\ UNCHANGED <<store_vars, caller_vars, camera_vars, af_controller, is_running,
                 interval_sec, thread, start_time, lock, total_count, errors, last_capture_time,
                 inference_queue, images, side_files, wprofile, wsleep>>

\* repo.get_current_profile() on the shared connection; "unknown" if there
\* is no current profile or the read raises
WReadProfile(w) ==
  /\ wpc[w] = "profile"
  /\ \E p \in GetCurrentResults(profiles) \cup {0} :
       wprofile' = [wprofile EXCEPT ![w] = p]
  /\ WGoto(w, "capture")
  /\ UNCHANGED <<store_vars, caller_vars, camera_vars, loop_vars, wts, wsleep>>

\* with an initialized controller attached the worker enters
\* capture_and_get_clarity; else it writes a placeholder file, or raises
WCaptureBegin(w) ==
  /\ wpc[w] = "capture"
  /\ IF af_controller /\ is_initialized
     THEN WGoto(w, "capturing")
     ELSE \/ WGoto(w, "save")
          \/ MayRaise /\ WGoto(w, "error")
  /\ UNCHANGED <<store_vars, caller_vars, camera_vars, loop_vars, wts, wprofile, wsleep>>

\* what capture_and_get_clarity can do: the simulator writes the file or
\* raises; the hardware adapter reports success or failure
CaptureOutcomes(mock) == IF mock THEN {"ok", "raise"} ELSE {"ok", "failed"}

\* _capture_one has returned (its locals are gone) and time.sleep(duration)
\* begins
WSleepBegin(w, duration) ==
  /\ WGoto(w, "sleep")
  /\ wsleep' = [wsleep EXCEPT ![w] = duration]
  /\ wts' = [wts EXCEPT ![w] = 0]
  /\ wprofile' = [wprofile EXCEPT ![w] = 0]

\* capture_and_get_clarity returns (True, score), returns (False, 0.0), or
\* raises; "failed" is the worker holding capture_success = False
WCaptureEnd(w) ==
  /\ wpc[w] = "capturing"
  /\ \E o \in CaptureOutcomes(use_mock) :
       \/ o = "ok" /\ WGoto(w, "save")
       \/ o = "failed" /\ WGoto(w, "failed")
       \/ o = "raise" /\ MayRaise /\ WGoto(w, "error")
  /\ UNCHANGED <<store_vars, caller_vars, camera_vars, loop_vars, wts, wprofile, wsleep>>

SkipOnFailureNever == FALSE

\* if not capture_success: return
SkipOnFailure == TRUE

\* the test of capture_success after a failed capture: _capture_one returns
\* and the worker sleeps interval_sec
WCaptureFailed(w) ==
  /\ wpc[w] = "failed"
  /\ IF SkipOnFailure
     THEN WSleepBegin(w, interval_sec)
     ELSE WGoto(w, "save") /\ UNCHANGED <<wts, wprofile, wsleep>>
  /\ UNCHANGED <<store_vars, caller_vars, camera_vars, loop_vars>>

\* focus_state of a tick: the af_mode of the profile read, which create
\* stores as "locked" for every profile, or "unknown" without a profile
FocusStateOf(p) == IF p = 0 THEN "unknown" ELSE "locked"

\* the row insert_image writes for the worker's tick
ImageRow(w) ==
  [ts |-> wts[w], profile_id |-> wprofile[w], focus_state |-> FocusStateOf(wprofile[w])]

\* how a call of save_image_metadata can go: both writes succeed; writing
\* the side-file raises; the side-file is written and the insert raises
SaveOutcomes == {"ok", "side_file_fails", "insert_fails"}

\* the value save_image_metadata returns: False from its except clause;
\* the result of insert_image (False when the insert raised) is not looked at
SaveReturns(outcome) == outcome # "side_file_fails"

SaveImageMetadataRowFirst(row, outcome) ==
  /\ outcome # "ok" => faults < MaxFaults
  /\ faults' = IF outcome = "ok" THEN faults ELSE faults + 1
  /\ side_files' = IF outcome = "side_file_fails" THEN side_files ELSE side_files \cup {row.ts}
  /\ images' = IF outcome = "insert_fails" THEN images ELSE images \cup {row}
  /\ committed' = IF outcome = "insert_fails" THEN committed ELSE profiles
  /\ profiles' = IF outcome = "insert_fails" THEN committed ELSE profiles

\* save_image_metadata(row): side-file, then INSERT INTO images and commit
\* on the shared connection, or rollback when the insert raises
SaveImageMetadata(row, outcome) ==
  /\ outcome # "ok" => faults < MaxFaults
  /\ faults' = IF outcome = "ok" THEN faults ELSE faults + 1
  /\ side_files' = IF outcome = "side_file_fails" THEN side_files ELSE side_files \cup {row.ts}
  /\ images' = IF outcome = "ok" THEN images \cup {row} ELSE images
  /\ committed' = IF outcome = "ok" THEN profiles ELSE committed
  /\ profiles' = IF outcome = "insert_fails" THEN committed ELSE profiles

\* self.file_store.save_image_metadata(metadata); the result is not used
WSave(w) ==
  /\ wpc[w] = "save"
  /\ \E outcome \in SaveOutcomes : SaveImageMetadata(ImageRow(w), outcome)
  /\ WGoto(w, "count")
  /\ UNCHANGED <<next_id, caller_vars, camera_vars, af_controller, is_running, interval_sec,
                 thread, start_time, lock, total_count, errors, last_capture_time, inference_queue,
                 ticks, wts, wprofile, wsleep>>

\* a direct call of save_image_metadata with a record of the caller's
SaveMetadataCall(t, ts) ==
  /\ pc[t] = "idle"
  /\ ts \notin side_files
  /\ \E outcome \in SaveOutcomes :
       /\ SaveImageMetadata([ts |-> ts, profile_id |-> 0, focus_state |-> "unknown"], outcome)
       /\ resp' = [op |-> "save_image_metadata", id |-> ts,
                   status |-> IF SaveReturns(outcome) THEN "true" ELSE "false"]
  /\ UNCHANGED <<next_id, pc, call, camera_vars, af_controller, is_running, interval_sec,
                 thread, start_time, lock, total_count, errors, last_capture_time, inference_queue,
                 ticks, worker_vars>>


\* self._total_count += 1; self._last_capture_time = ts
WCount(w) ==
  /\ wpc[w] = "count"
  /\ total_count' = total_count + 1
  /\ last_capture_time' = wts[w]
  /\ WGoto(w, "offer")
  /\ UNCHANGED <<store_vars, caller_vars, camera_vars, af_controller, is_running,
                 interval_sec, thread, start_time, lock, errors, inference_queue, images, side_files, ticks,
                 wts, wprofile, wsleep>>

QueueFullNever(size) == FALSE

\* Queue.full()
QueueFull(size) == size >= QueueCapacity

\* if not self.inference_queue.full(): go on to put_nowait; else the item
\* is skipped and _capture_one returns
WOffer(w) ==
  /\ wpc[w] = "offer"
  /\ IF QueueFull(inference_queue)
     THEN WSleepBegin(w, interval_sec)
     ELSE WGoto(w, "put") /\ UNCHANGED <<wts, wprofile, wsleep>>
  /\ UNCHANGED <<store_vars, caller_vars, camera_vars, loop_vars>>

\* Queue.put_nowait: the size afterwards (queue.Full is raised, and caught
\* by the caller, when there is no free slot)
PutNowait(size) == IF size < QueueCapacity THEN size + 1 ELSE size

WPut(w) ==
  /\ wpc[w] = "put"
  /\ inference_queue' = PutNowait(inference_queue)
  /\ WSleepBegin(w, interval_sec)
  /\ UNCHANGED <<store_vars, caller_vars, camera_vars, af_controller, is_running,
                 interval_sec, thread, start_time, lock, total_count, errors, last_capture_time,
                 images, side_files, ticks>>

\* time.sleep returns; back to the loop test
WSleepEnd(w) ==
  /\ wpc[w] \in {"sleep", "errsleep"}
  /\ WGoto(w, "top")
  /\ wsleep' = [wsleep EXCEPT ![w] = 0]
  /\ UNCHANGED <<store_vars, caller_vars, camera_vars, loop_vars, wts, wprofile>>

WErrorExit(w) == "done"

\* where the worker goes after the except clause: time.sleep(1), then the
\* loop test
WErrorNext(w) == "errsleep"

\* except Exception: self._errors += 1 (the locals of _capture_one are gone)
WError(w) ==
  /\ wpc[w] = "error"
  /\ errors' = errors + 1
  /\ WGoto(w, WErrorNext(w))
  /\ wts' = [wts EXCEPT ![w] = 0]
  /\ wprofile' = [wprofile EXCEPT ![w] = 0]
  /\ UNCHANGED <<store_vars, caller_vars, camera_vars, af_controller, is_running,
                 interval_sec, thread, start_time, lock, total_count, last_capture_time,
                 inference_queue, images, side_files, ticks, wsleep>>

\* a consumer of the inference queue takes one item
Consume ==
  /\ inference_queue > 0
  /\ inference_queue' = inference_queue - 1
  /\ UNCHANGED <<store_vars, caller_vars, camera_vars, af_controller, is_running,
                 interval_sec, thread, start_time, lock, total_count, errors, last_capture_time,
                 images, side_files, ticks, worker_vars>>

WorkerStep(w) ==
  \/ WTop(w) \/ WReadProfile(w) \/ WCaptureBegin(w) \/ WCaptureEnd(w)
  \/ WCaptureFailed(w)
  \/ WSave(w) \/ WCount(w) \/ WOffer(w) \/ WPut(w) \/ WSleepEnd(w) \/ WError(w)

(* ------------------------ autofocus and capture routes ---------------- *)

\* the adapter operations the camera routes issue through the controller
AdapterOps == {"trigger", "lock", "unlock", "state", "capture"}

\* a camera route: 503 unless the controller is initialized (the state
\* route asks the controller, which answers "unknown" without the adapter);
\* else the controller method, and in it the adapter, is entered
AfBegin(t, op) ==
  /\ pc[t] = "idle"
  /\ IF is_initialized
     THEN /\ pc' = [pc EXCEPT ![t] = "af_call"]
          /\ call' = [call EXCEPT ![t] = [op |-> op, id |-> 0, lens |-> "none"]]
          /\ UNCHANGED resp
     ELSE Reject(t, op, 0, IF op = "state" THEN "200" ELSE "503")
  /\ UNCHANGED <<store_vars, camera_vars, loop_vars, worker_vars>>

UnlockKeepsPosition(mock) ==
  {[af_mode |-> "auto", locked |-> locked_lens_position, result |-> "true"]}

\* unlock_focus when set_controls returns (the simulator has no such call):
\* back to auto with no locked position, True
UnlockOutcomes(mock) == {[af_mode |-> "auto", locked |-> "none", result |-> "true"]}

\* the af_mode and locked_position entries of the dict get_af_state returns
Snapshot(mode, locked) == mode \o ":" \o locked

\* the controller methods called directly, not through a route
ControllerOps == {"ctl_trigger", "ctl_lock", "ctl_unlock", "ctl_state", "ctl_capture"}

\* the adapter method behind a route or a direct controller call
MethodOf(op) ==
  CASE op \in {"trigger", "ctl_trigger"} -> "trigger"
    [] op \in {"lock", "ctl_lock"} -> "lock"
    [] op \in {"unlock", "ctl_unlock"} -> "unlock"
    [] op \in {"state", "ctl_state"} -> "state"
    [] op \in {"capture", "ctl_capture"} -> "capture"
    [] OTHER -> "none"

\* what the caller sees when the adapter call is over: a route answers 200
\* (500 for a failed capture), a direct call gets the adapter's result
AfStatus(op, ok) ==
  IF op \in ControllerOps
  THEN IF ok THEN "returned" ELSE "(false, 0)"
  ELSE IF ok THEN "200" ELSE "500"

\* a direct call returns the value the adapter returned; a route answers
\* with its status
MethodResult(op, result, ok) == IF op \in ControllerOps THEN result ELSE AfStatus(op, ok)

\* the adapter call returns, none of its camera calls having raised, and
\* the route answers
AfEnd(t) ==
  /\ pc[t] = "af_call"
  /\ \/ /\ MethodOf(call[t].op) = "lock"
        /\ \E reading \in LensReadings(use_mock) \ {"raise"} :
             LET r == LockFocus(reading, af_mode, locked_lens_position) IN
             /\ af_mode' = r.af_mode
             /\ locked_lens_position' = r.locked
             /\ picam_controls' = LockControls(reading)
             /\ Return(t, MethodResult(call[t].op, r.result, TRUE))
     \/ /\ MethodOf(call[t].op) = "unlock"
        /\ \E o \in UnlockOutcomes(use_mock) :
             /\ af_mode' = o.af_mode
             /\ locked_lens_position' = o.locked
             /\ picam_controls' = SetControls("Auto", "none")
             /\ Return(t, MethodResult(call[t].op, o.result, TRUE))
     \/ /\ MethodOf(call[t].op) = "state"
        /\ UNCHANGED <<af_mode, locked_lens_position, picam_controls>>
        /\ Return(t, MethodResult(call[t].op, Snapshot(af_mode, locked_lens_position), TRUE))
     \/ /\ MethodOf(call[t].op) = "trigger"
        /\ picam_controls' = SetControls("Auto", "none")
        /\ UNCHANGED <<af_mode, locked_lens_position>>
        /\ Return(t, AfStatus(call[t].op, TRUE))
     \/ /\ MethodOf(call[t].op) = "capture"
        /\ UNCHANGED <<af_mode, locked_lens_position, picam_controls>>
        /\ \E o \in CaptureOutcomes(use_mock) :
             Return(t, AfStatus(call[t].op, o = "ok"))
  /\ UNCHANGED <<store_vars, use_mock, is_initialized, loop_vars, worker_vars>>

\* the methods whose camera calls sit in a try block that returns a
\* failure value (one_shot_af, lock_focus, unlock_focus of the hardware
\* adapter)
GuardedMethods == {"trigger", "lock", "unlock"}

\* a camera call of the hardware adapter raises inside one_shot_af,
\* lock_focus or unlock_focus, before the method assigned anything
AfRaise(t) ==
  /\ pc[t] = "af_call"
  /\ ~use_mock
  /\ MethodOf(call[t].op) \in GuardedMethods
  /\ Goto(t, "af_except")
  /\ \/ UNCHANGED picam_controls
     \/ /\ MethodOf(call[t].op) = "trigger"
        /\ picam_controls' = SetControls("Auto", "none")
  /\ UNCHANGED <<store_vars, use_mock, is_initialized, af_mode, locked_lens_position,
                 loop_vars, worker_vars>>

ExceptPropagates(op) == "raised"

\* what the except clause of each method returns
ExceptResult(op) ==
  CASE MethodOf(op) = "trigger" -> "(false, 0, none)"
    [] MethodOf(op) = "lock" -> "none"
    [] MethodOf(op) = "unlock" -> "false"

\* except Exception: log, return the failure value
AfExcept(t) ==
  /\ pc[t] = "af_except"
  /\ Return(t, MethodResult(call[t].op, ExceptResult(call[t].op), TRUE))
  /\ UNCHANGED <<store_vars, camera_vars, loop_vars, worker_vars>>

(* ------------------------- AFController methods ----------------------- *)

UninitializedNever(initialized) == FALSE

\* if not self._is_initialized or self._camera is None (the camera is set
\* whenever the flag is)
Uninitialized(initialized) == ~initialized

\* what each method returns from its uninitialized branch
UninitializedResult(op) ==
  CASE MethodOf(op) = "trigger" -> "(false, 0, none)"
    [] MethodOf(op) = "lock" -> "none"
    [] MethodOf(op) = "unlock" -> "false"
    [] MethodOf(op) = "capture" -> "(false, 0)"
    [] MethodOf(op) = "state" -> "not_initialized"

\* trigger_one_shot_af, lock_focus, unlock_focus, get_af_state or
\* capture_and_get_clarity called on the controller: the uninitialized
\* branch returns at once, else the adapter is entered
ControllerCall(t, op) ==
  /\ pc[t] = "idle"
  /\ IF Uninitialized(is_initialized)
     THEN Reject(t, op, 0, UninitializedResult(op))
     ELSE /\ pc' = [pc EXCEPT ![t] = "af_call"]
          /\ call' = [call EXCEPT ![t] = [op |-> op, id |-> 0, lens |-> "none"]]
          /\ UNCHANGED resp
  /\ UNCHANGED <<store_vars, camera_vars, loop_vars, worker_vars>>

\* how initialize() can end: the simulator always starts; the hardware
\* camera starts, or fails to (False, or an exception that is caught)
InitializeOutcomes(mock) == IF mock THEN {TRUE} ELSE {TRUE, FALSE}

\* initialize(): True at once if initialized; else a new adapter (auto
\* mode, nothing locked) is created and started
Initialize(t) ==
  /\ pc[t] = "idle"
  /\ IF is_initialized
     THEN /\ Reject(t, "ctl_initialize", 0, "true")
          /\ UNCHANGED camera_vars
     ELSE \E ok \in InitializeOutcomes(use_mock) :
            /\ is_initialized' = ok
            /\ af_mode' = "auto"
            /\ locked_lens_position' = "none"
            /\ picam_controls' = SetControls("Auto", "none")
            /\ Reject(t, "ctl_initialize", 0, IF ok THEN "true" ELSE "false")
            /\ UNCHANGED use_mock
  /\ UNCHANGED <<store_vars, loop_vars, worker_vars>>

\* close(): the adapter is closed and dropped, the flag is cleared
Close(t) ==
  /\ pc[t] = "idle"
  /\ is_initialized' = FALSE
  /\ af_mode' = "auto"
  /\ locked_lens_position' = "none"
  /\ picam_controls' = SetControls("Auto", "none")
  /\ Reject(t, "ctl_close", 0, "none")
  /\ UNCHANGED <<use_mock, store_vars, loop_vars, worker_vars>>

(* ------------------- one_shot_af, poll by poll ------------------------ *)

\* time.sleep(0.05) between two polls, in hundredths of a second
PollInterval == 5

\* MockCamA._mock_af_duration = 0.8, in hundredths of a second
MockAfDuration == 80

\* the timeouts a caller passes: short ones, and one as long as the
\* simulator's focusing time
Timeouts == (1..MaxTimeout) \cup {MockAfDuration}

\* the time one capture_metadata() call can take
PollDurations == {0, MaxPollDuration}

\* the tuple one_shot_af returns
TriggerResult(success, duration, lens) ==
  "(" \o (IF success THEN "true" ELSE "false") \o ", " \o ToString(duration)
      \o ", " \o lens \o ")"

\* trigger_one_shot_af(timeout): the uninitialized branch, else one_shot_af
\* is entered and start = time.time() is taken
OneShotAfBegin(t, timeout) ==
  /\ pc[t] = "idle"
  /\ IF Uninitialized(is_initialized)
     THEN Reject(t, "ctl_trigger", 0, UninitializedResult("ctl_trigger"))
     ELSE /\ pc' = [pc EXCEPT ![t] = IF use_mock THEN "af_mock" ELSE "af_test"]
          /\ call' = [call EXCEPT ![t] =
                       [op |-> "ctl_trigger", id |-> 0, lens |-> "none",
                        timeout |-> timeout, elapsed |-> 0]]
          /\ UNCHANGED resp
  /\ picam_controls' = IF Uninitialized(is_initialized)
                       THEN picam_controls ELSE SetControls("Auto", "none")
  /\ UNCHANGED <<store_vars, use_mock, is_initialized, af_mode, locked_lens_position,
                 loop_vars, worker_vars>>

PollAllowedAlways(elapsed, timeout) == TRUE

\* while time.time() - start < timeout
PollAllowed(elapsed, timeout) == elapsed < timeout

\* the loop test; when it fails: return False, timeout, None
AfLoopTest(t) ==
  /\ pc[t] = "af_test"
  /\ IF PollAllowed(call[t].elapsed, call[t].timeout)
     THEN Goto(t, "af_poll")
     ELSE Return(t, TriggerResult(FALSE, call[t].timeout, "none"))
  /\ UNCHANGED <<store_vars, camera_vars, loop_vars, worker_vars>>

\* what a poll can find: the focused state, another state, or the camera
\* call raising
PollOutcomes == {"focused", "not_focused", "raise"}

\* metadata = self.picam.capture_metadata(), taking d; Focused: return
\* True, the time since start, the lens position
AfPoll(t) ==
  /\ pc[t] = "af_poll"
  /\ \E d \in PollDurations, o \in PollOutcomes :
       LET now == call[t].elapsed + d IN
       \/ /\ o = "focused"
          /\ Return(t, TriggerResult(TRUE, now, MockLensPosition))
       \/ /\ o = "not_focused"
          /\ pc' = [pc EXCEPT ![t] = "af_sleep"]
          /\ call' = [call EXCEPT ![t].elapsed = now]
          /\ UNCHANGED resp
       \/ /\ o = "raise"
          /\ Goto(t, "af_except")
  /\ UNCHANGED <<store_vars, camera_vars, loop_vars, worker_vars>>

\* time.sleep(0.05)
AfSleep(t) ==
  /\ pc[t] = "af_sleep"
  /\ pc' = [pc EXCEPT ![t] = "af_test"]
  /\ call' = [call EXCEPT ![t].elapsed = @ + PollInterval]
  /\ UNCHANGED resp
  /\ UNCHANGED <<store_vars, camera_vars, loop_vars, worker_vars>>

\* MockCamA.one_shot_af: sleep min(0.8, timeout); focused iff
\* 0.8 <= timeout
MockOneShotAf(t) ==
  /\ pc[t] = "af_mock"
  /\ IF MockAfDuration <= call[t].timeout
     THEN Return(t, TriggerResult(TRUE, MockAfDuration, MockLensPosition))
     ELSE Return(t, TriggerResult(FALSE, call[t].timeout, "none"))
  /\ UNCHANGED <<store_vars, camera_vars, loop_vars, worker_vars>>

\* a step of a trigger call in progress
OneShotAfStep(t) ==
  AfLoopTest(t) \/ AfPoll(t) \/ AfSleep(t) \/ MockOneShotAf(t) \/ AfExcept(t)

(* --------------------------- specifications --------------------------- *)

\* one caller at a time, every store statement succeeds
NextSeq ==
  \E t \in SeqCallers :
    \/ CreateBegin(t) \/ CreateTriggerEnd(t) \/ CreateLockEnd(t)
    \/ SaveInsert(t) \/ SaveCommit(t)
    \/ \E id \in RequestIds : SelectBegin(t, id)
    \/ SelectReapply(t)
    \/ \E id \in RequestIds : DeleteCheck(t, id)
    \/ DeleteExec(t) \/ DeleteCommit(t)
    \/ \E id \in RequestIds : SetCurrentCall(t, id)
    \/ ScCheck(t) \/ ScClear(t) \/ ScSet(t) \/ ScCommit(t)

SpecSeq == Init /\ [][NextSeq]_vars

\* concurrent callers of the profile handlers on the shared connection
NextStore ==
  \E t \in Callers :
    \/ CreateBegin(t) \/ CreateTriggerEnd(t) \/ CreateLockEnd(t)
    \/ SaveInsert(t) \/ SaveCommit(t) \/ SaveFail(t)
    \/ \E id \in RequestIds : SelectBegin(t, id)
    \/ SelectReapply(t)
    \/ \E id \in RequestIds : DeleteCheck(t, id)
    \/ DeleteExec(t) \/ DeleteCommit(t) \/ DeleteFail(t)
    \/ ScCheck(t) \/ ScClear(t) \/ ScSet(t) \/ ScCommit(t) \/ ScFail(t)

SpecStore == Init /\ [][NextStore]_vars

\* a store holding every profile id, one of them current, as NumProfiles
\* completed creates and a select leave it
InitSel ==
  /\ LoopInit
  /\ \E c \in ProfileIds :
       profiles = [i \in ProfileIds |-> [is_current |-> (i = c), lens_position |-> MockLensPosition]]
  /\ committed = profiles
  /\ next_id = NumProfiles + 1
  /\ faults = 0
  /\ pc = [t \in Callers |-> "idle"]
  /\ call = [t \in Callers |-> NoCall]
  /\ resp = NoResp
  /\ use_mock = TRUE
  /\ is_initialized = TRUE
  /\ af_mode = "locked"
  /\ locked_lens_position = MockLensPosition
  /\ picam_controls = [AfMode |-> "Auto", LensPosition |-> "none"]

\* concurrent callers of set_current_profile on the shared connection
NextSel ==
  \E t \in Callers :
    \/ \E id \in RequestIds : SetCurrentCall(t, id)
    \/ ScCheck(t) \/ ScClear(t) \/ ScSet(t) \/ ScCommit(t)

SpecSel == InitSel /\ [][NextSel]_vars

\* callers starting and stopping the capture loop, its workers, a consumer
NextLoop ==
  \/ \E t \in SeqCallers :
       \/ \E iv \in Intervals : StartCapture(t, iv)
       \/ Start(t)
       \/ StopCapture(t) \/ Stop(t) \/ StopJoined(t) \/ StopJoinTimeout(t)
  \/ \E w \in Workers : WorkerStep(w)
  \/ Consume

SpecLoop == Init /\ [][NextLoop]_vars

\* a caller using the camera and profile routes while the capture loop runs
NextCam ==
  \/ \E t \in SeqCallers :
       \/ \E iv \in Intervals : StartCapture(t, iv)
       \/ Start(t)
       \/ \E op \in AdapterOps : AfBegin(t, op)
       \/ AfEnd(t) \/ AfRaise(t) \/ AfExcept(t)
       \/ CreateBegin(t) \/ CreateTriggerEnd(t) \/ CreateLockEnd(t)
       \/ SaveInsert(t) \/ SaveCommit(t)
       \/ \E id \in RequestIds : SelectBegin(t, id)
       \/ SelectReapply(t)
       \/ ScCheck(t) \/ ScClear(t) \/ ScSet(t) \/ ScCommit(t)
  \/ \E w \in Workers : WorkerStep(w)

SpecCam == Init /\ [][NextCam]_vars

\* callers of the camera routes
NextAf ==
  \E t \in Callers :
    \/ \E op \in AdapterOps : AfBegin(t, op)
    \/ AfEnd(t) \/ AfRaise(t) \/ AfExcept(t)

SpecAf == Init /\ [][NextAf]_vars

\* a caller of the profile handlers and a caller of the file store
NextFile ==
  \/ NextSeq
  \/ \E ts \in 1..MaxTicks : SaveMetadataCall("c2", ts)

SpecFile == Init /\ [][NextFile]_vars

\* the capture loop started and stopped through the routes and by direct
\* calls, every join of stop() returning before its timeout
NextRun ==
  \/ \E t \in SeqCallers :
       \/ \E iv \in Intervals : StartCapture(t, iv)
       \/ Start(t)
       \/ StopCapture(t) \/ Stop(t) \/ StopJoined(t)
       \/ \E iv \in Intervals : StartCall(t, iv)
       \/ StopCall(t)
  \/ \E w \in Workers : WorkerStep(w)
  \/ Consume

SpecRun == Init /\ [][NextRun]_vars

\* a live worker thread is scheduled again and again, and each call it
\* makes returns
WorkerFairness == \A w \in Workers : WF_vars(WorkerStep(w))

\* the capture routes with the default interval and the worker threads,
\* nothing draining the queue
NextExit ==
  \/ \E t \in SeqCallers :
       \/ StartCapture(t, DefaultInterval)
       \/ Start(t)
       \/ StopCapture(t) \/ Stop(t) \/ StopJoined(t) \/ StopJoinTimeout(t)
  \/ \E w \in Workers : WorkerStep(w)

SpecExit == Init /\ [][NextExit]_vars /\ WorkerFairness

\* a caller creating and selecting profiles, with failing statements of
\* the store, while the capture loop runs
NextTick ==
  \/ \E t \in SeqCallers :
       \/ StartCapture(t, DefaultInterval)
       \/ Start(t)
       \/ CreateBegin(t) \/ CreateTriggerEnd(t) \/ CreateLockEnd(t)
       \/ SaveInsert(t) \/ SaveCommit(t) \/ SaveFail(t)
       \/ \E id \in RequestIds : SelectBegin(t, id)
       \/ SelectReapply(t)
       \/ ScCheck(t) \/ ScClear(t) \/ ScSet(t) \/ ScCommit(t) \/ ScFail(t)
  \/ \E w \in Workers : WorkerStep(w)

SpecTick == Init /\ [][NextTick]_vars

\* one caller of the controller's methods
NextCtl ==
  \E t \in SeqCallers :
    \/ \E op \in ControllerOps : ControllerCall(t, op)
    \/ AfEnd(t) \/ AfRaise(t) \/ AfExcept(t)
    \/ Initialize(t)
    \/ Close(t)

SpecCtl == Init /\ [][NextCtl]_vars

\* one caller triggering autofocus with a timeout of its choice
NextTrigger ==
  \E t \in SeqCallers :
    \/ \E timeout \in Timeouts : OneShotAfBegin(t, timeout)
    \/ OneShotAfStep(t)

\* the caller's thread keeps running and each camera call returns
TriggerFairness == \A t \in SeqCallers : WF_vars(OneShotAfStep(t))

SpecTrigger == Init /\ [][NextTrigger]_vars /\ TriggerFairness

\* one caller at a time, statements of the store may raise
NextFault ==
  \/ NextSeq
  \/ \E t \in SeqCallers : SaveFail(t) \/ ScFail(t) \/ DeleteFail(t)

SpecFault == Init /\ [][NextFault]_vars

(* ------------------------------ claims -------------------------------- *)

\* C1: after every set_current_profile(id) call of a sequence has returned,
\* at most one stored profile is current, and after a call that returned
\* True exactly the target is current (and stored).
C1_SetCurrentKeepsOneCurrent ==
  \A t \in SeqCallers :
    (pc[t] = "idle" /\ resp.op = "set_current") =>
      /\ Cardinality(CurrentRows(profiles)) <= 1
      /\ Cardinality(CurrentRows(committed)) <= 1
      /\ resp.status = "true" =>
           (resp.id \in DOMAIN committed /\ CurrentRows(committed) = {resp.id})

\* a set_current_profile(1) that returned True after profile 2 had been
\* created (and so had been current)
C1_Witness ==
  /\ pc["c1"] = "idle"
  /\ resp = [op |-> "set_current", id |-> 1, status |-> "true"]
  /\ Cardinality(DOMAIN profiles) >= 2

\* C2: with concurrent callers of set_current_profile, every committed
\* state has at most one profile with is_current = true.
C2_CommittedAtMostOneCurrent == Cardinality(CurrentRows(committed)) <= 1

\* C3: at most one stored profile is current in every state of the store,
\* the states between the steps of create included.
C3_AtMostOneCurrentAlways ==
  \A tbl \in {profiles, committed} : \A i, j \in CurrentRows(tbl) : i = j

\* C9: a delete of the current profile is rejected with 400 and changes no
\* stored profile and no current flag; a delete of a stored profile that is
\* not current (another one having become current) is let through, answers
\* 200 and removes the profile.
C9_DeleteCurrentRejected ==
  [][\A t \in SeqCallers : \A id \in RequestIds :
       /\ (DeleteCheck(t, id) /\ id \in CurrentRows(profiles)) =>
            /\ resp' = [op |-> "delete", id |-> id, status |-> "400"]
            /\ pc'[t] = "idle"
            /\ profiles' = profiles /\ committed' = committed
       /\ (DeleteCheck(t, id) /\ id \notin CurrentRows(profiles)) =>
            /\ pc'[t] = "del_exec" /\ call'[t].id = id
       /\ (pc[t] = "del_exec" /\ call[t].id = id /\ pc'[t] # pc[t]) =>
            /\ pc'[t] = "del_commit" /\ id \notin DOMAIN profiles'
       /\ (pc[t] = "del_commit" /\ call[t].id = id /\ pc'[t] # pc[t]) =>
            /\ resp' = [op |-> "delete", id |-> id, status |-> "200"]
            /\ id \notin DOMAIN profiles' /\ id \notin DOMAIN committed'
    ]_vars

\* profile 1, current when created, has been deleted with 200 once
\* profile 2 was current
C9_Witness ==
  /\ pc["c1"] = "idle"
  /\ resp = [op |-> "delete", id |-> 1, status |-> "200"]
  /\ 1 \notin DOMAIN committed
  /\ CurrentRows(committed) = {2}

\* C10: delete never removes the row of a profile that is current at the
\* moment of the removal, whatever select and create calls run alongside.
C10_CurrentNeverDeleted ==
  [][\A t \in Callers :
       (pc[t] = "del_exec" /\ pc'[t] = "del_commit") =>
          call[t].id \notin CurrentRows(profiles)
    ]_vars

\* positions of a worker inside a tick (from the passed loop test to the
\* end of _capture_one or of the except clause)
TickLabels == {"profile", "capture", "capturing", "failed", "save", "count", "offer", "put", "error"}

\* C4 as stated: once stop() has returned True, and until the next start(),
\* every worker has left its loop and the loop changes neither total_count
\* nor last_capture_time nor the image store.
C4_StoppedMeansWorkerGone ==
  [][(resp.op = "stop" /\ resp.status = "200" /\ ~is_running) =>
       /\ \A w \in Workers : ~IsAlive(w)
       /\ total_count' = total_count
       /\ last_capture_time' = last_capture_time
       /\ images' = images
    ]_vars

\* C4 as amended: a stop() that returns True has cleared the running flag,
\* and while the flag is cleared a worker that evaluates its loop test
\* leaves the loop, so that no tick begins until the next start(); a tick in
\* flight when the bounded join expired may still finish afterwards.
C4_NoTickBeginsWhileStopped ==
  [][/\ (resp'.op = "stop" /\ resp'.status = "200") => ~is_running'
     /\ \A w \in Workers :
          (~is_running /\ wpc[w] = "top" /\ wpc'[w] # "top") =>
             (wpc'[w] = "done" /\ ticks' = ticks)
     /\ ~is_running => ticks' = ticks
    ]_vars

\* stop() has returned True after its join expired, and the tick that was
\* in flight is about to update the counters
C4_Witness ==
  /\ resp = [op |-> "stop", id |-> 0, status |-> "200"]
  /\ ~is_running
  /\ pc["c1"] = "idle"
  /\ wpc[1] = "count"

\* C5: at most one capture worker is inside a tick at any time.
C5_AtMostOneWorkerTicks ==
  Cardinality({w \in Workers : wpc[w] \in TickLabels}) <= 1

\* C6: the queue never holds more than its capacity; every tick that gets
\* to the queue check has just increased total_count by one, whatever the
\* queue holds; a tick that finds the queue full leaves it as it is and goes
\* on to its sleep; the queue steps of the tick are never blocked.
C6_QueueBoundedAndNonBlocking ==
  [][/\ inference_queue <= QueueCapacity /\ inference_queue' <= QueueCapacity
     /\ \A w \in Workers :
          /\ (wpc'[w] = "offer" /\ wpc[w] # "offer") =>
                (wpc[w] = "count" /\ total_count' = total_count + 1)
          /\ (wpc[w] = "offer" /\ wpc'[w] # "offer" /\ inference_queue >= QueueCapacity) =>
                /\ inference_queue' = inference_queue
                /\ total_count' = total_count
                /\ wpc'[w] = "sleep"
          /\ (wpc[w] = "offer" /\ wpc'[w] # "offer" /\ inference_queue < QueueCapacity) =>
                wpc'[w] = "put"
          /\ (wpc[w] = "put" /\ wpc'[w] # "put") =>
                /\ inference_queue' \in {inference_queue, inference_queue + 1}
                /\ wpc'[w] = "sleep"
          /\ wpc[w] = "offer" => ENABLED WOffer(w)
          /\ wpc[w] = "put" => ENABLED WPut(w)
    ]_vars

\* a counted tick finds the queue full
C6_Witness ==
  /\ wpc[1] = "offer"
  /\ inference_queue = QueueCapacity
  /\ total_count = QueueCapacity + 1

\* C7: the except clause of the loop adds one to the error counter and
\* leads, through its sleep, back to the loop test; a worker at the loop
\* test with the flag set can only begin a further tick; a worker leaves the
\* loop only from the loop test with the flag cleared, and only stop()
\* clears the flag.
C7_FailingTickKeepsLoop ==
  [][/\ \A w \in Workers :
          /\ (wpc[w] = "error" /\ wpc'[w] # "error") =>
                (errors' = errors + 1 /\ wpc'[w] = "errsleep")
          /\ (wpc[w] = "errsleep" /\ wpc'[w] # "errsleep") => wpc'[w] = "top"
          /\ (wpc[w] = "top" /\ is_running /\ wpc'[w] # "top") =>
                (wpc'[w] \in TickLabels /\ ticks' = ticks + 1)
          /\ (wpc'[w] = "done" /\ wpc[w] # "done") => (wpc[w] = "top" /\ ~is_running)
          /\ wpc[w] \in {"error", "errsleep"} => ENABLED (WError(w) \/ WSleepEnd(w))
     /\ (is_running /\ ~is_running') => \E t \in Callers : pc[t] = "stop_call"
     /\ errors' \in {errors, errors + 1}
    ]_vars

\* a tick has raised, the error has been counted, and the same worker is
\* executing a further tick
C7_Witness ==
  /\ thread = 1
  /\ errors = 1
  /\ is_running
  /\ wpc[1] \in TickLabels \ {"error"}

\* positions of a caller inside a call of the camera adapter
AdapterLabels == {"cr_trigger", "cr_lock", "sel_reapply", "af_call", "af_except"}

\* C8: while a worker is inside its capture call no caller is inside a
\* trigger, lock, unlock, metadata read or capture call of the adapter, nor
\* inside the lens re-apply of select.
C8_AdapterOneOperation ==
  \A w \in Workers : wpc[w] = "capturing" =>
    \A t \in Callers : pc[t] \notin AdapterLabels

\* C11: whenever the adapter is in the locked mode it carries a locked lens
\* position.
C11_LockedCarriesPosition ==
  af_mode = "locked" => locked_lens_position # "none"

\* C12: a call of save_image_metadata that returned True has left both the
\* side-file and the row of its record, and a call that returned False is
\* one in which a write failed.
C12_TrueMeansBothWritten ==
  resp.op = "save_image_metadata" =>
    (resp.status = "true" <=>
       (resp.id \in side_files /\ \E r \in images : r.ts = resp.id))

\* C13: a stop() that finds the loop not running (never started, or stopped
\* before) returns False and leaves total_count, the error counter,
\* last_capture_time and is_running as they were, every time it is called.
C13_StopWhenNotRunning ==
  [][\A t \in Callers :
       (pc[t] = "stop_call" /\ ~is_running /\ pc'[t] # "stop_call") =>
          /\ pc'[t] = "idle"
          /\ resp' = [op |-> call[t].op, id |-> 0,
                      status |-> IF call[t].op = "stop" THEN "500" ELSE "false"]
          /\ ~is_running'
          /\ total_count' = total_count
          /\ errors' = errors
          /\ last_capture_time' = last_capture_time
    ]_vars

\* stop() has returned False on a loop that had run, counted a tick and
\* been stopped
C13_Witness ==
  /\ resp = [op |-> "loop.stop", id |-> 0, status |-> "false"]
  /\ pc["c1"] = "idle"
  /\ ~is_running
  /\ thread = 1
  /\ total_count >= 1

\* C14: a start(interval) that finds the loop running returns False and
\* changes nothing: no worker is created, and interval_sec, the start time
\* and the counters keep their values.
C14_StartWhenRunning ==
  [][\A t \in Callers :
       (pc[t] = "start_call" /\ is_running /\ pc'[t] # "start_call") =>
          /\ pc'[t] = "idle"
          /\ resp' = [op |-> call[t].op, id |-> 0,
                      status |-> IF call[t].op = "start" THEN "500" ELSE "false"]
          /\ is_running'
          /\ thread' = thread /\ wpc' = wpc
          /\ interval_sec' = interval_sec
          /\ start_time' = start_time
          /\ total_count' = total_count
          /\ errors' = errors
          /\ last_capture_time' = last_capture_time
    ]_vars

\* start() has returned False on the running loop, whose only worker goes on
C14_Witness ==
  /\ resp = [op |-> "loop.start", id |-> 0, status |-> "false"]
  /\ pc["c1"] = "idle"
  /\ is_running
  /\ thread = 1 /\ start_time = 1
  /\ wpc[2] = "unborn"

\* C15: once the running flag is cleared, every live worker leaves its loop
\* (no worker thread stays alive) unless a later start() sets the flag again.
C15_WorkerExitsAfterStop ==
  (~is_running) ~> (is_running \/ \A w \in Workers : ~IsAlive(w))

\* the flag has been cleared during the worker's first tick; the worker
\* has finished that tick and left its loop
C15_Witness ==
  /\ ~is_running
  /\ thread = 1
  /\ wpc[1] = "done"
  /\ ticks = 1
  /\ total_count = 1

\* C16: when capture_and_get_clarity has reported failure, the tick ends
\* there: no side-file and no row is written, total_count,
\* last_capture_time, the queue and the error counter keep their values, and
\* the worker sleeps the interval before its next loop test.
C16_FailedCapturePersistsNothing ==
  [][\A w \in Workers :
       (wpc[w] = "failed" /\ wpc'[w] # "failed") =>
          /\ wpc'[w] = "sleep"
          /\ wsleep'[w] = interval_sec
          /\ images' = images
          /\ side_files' = side_files
          /\ wts[w] \notin side_files
          /\ \A row \in images : row.ts # wts[w]
          /\ total_count' = total_count
          /\ last_capture_time' = last_capture_time
          /\ inference_queue' = inference_queue
          /\ errors' = errors ]_vars

\* a first tick whose capture failed is over: the worker sleeps, nothing is
\* stored or counted, and the loop is still running
C16_Witness ==
  /\ ~use_mock
  /\ is_running
  /\ thread = 1
  /\ ticks = 1
  /\ wpc[1] = "sleep"
  /\ total_count = 0
  /\ errors = 0
  /\ images = {}
  /\ side_files = {}

\* C17: whenever no worker stands between its save and its counter update,
\* the number of image records the loop has created equals total_count.
C17_RecordsEqualTotalCount ==
  (\A w \in Workers : wpc[w] # "count") => Cardinality(images) = total_count

\* C18: when the last request answered is a create or select that returned
\* 200 for profile id, and no request is in progress, a tick that reads the
\* store gets that profile, or "unknown" when the read fails.
C18_CompletedSelectionIsRead ==
  [][\A w \in Workers :
       ( /\ wpc[w] = "profile" /\ wpc'[w] = "capture"
         /\ resp.op \in {"create", "select"} /\ resp.status = "200"
         /\ \A t \in Callers : pc[t] = "idle" ) =>
            wprofile'[w] \in {resp.id, 0} ]_vars

\* C19: a tick that reaches its capture with a controller attached that is
\* not initialized ends as a failed capture (and so persists nothing); it
\* does not take the placeholder path.
C19_UninitializedControllerFails ==
  [][\A w \in Workers :
       (wpc[w] = "capture" /\ af_controller /\ ~is_initialized /\ wpc'[w] # "capture") =>
          wpc'[w] = "failed" ]_vars

\* C20: a controller method called while the controller is uninitialized
\* does not enter the adapter; it returns its fixed failure value (trigger
\* (false, 0, none), lock none, unlock false, capture (false, 0), state the
\* not_initialized snapshot) and leaves the controller as it was.
C20_UninitializedCallsFailQuietly ==
  [][\A t \in Callers :
       ( /\ ~is_initialized
         /\ pc[t] = "idle"
         /\ \/ pc'[t] # "idle" /\ call'[t].op \in ControllerOps
            \/ resp' # resp /\ resp'.op \in ControllerOps ) =>
            /\ pc' = pc
            /\ resp' = [op |-> resp'.op, id |-> 0, status |-> UninitializedResult(resp'.op)]
            /\ ~is_initialized'
            /\ af_mode' = af_mode
            /\ locked_lens_position' = locked_lens_position ]_vars

\* lock_focus has returned none from a controller that was initialized and
\* then closed
C20_Witness ==
  /\ ~is_initialized
  /\ use_mock
  /\ resp = [op |-> "ctl_lock", id |-> 0, status |-> "none"]
  /\ pc["c1"] = "idle"

C22_UnlockClearsLock ==
  [][/\ \A t \in Callers :
          (pc[t] = "af_call" /\ call[t].op = "ctl_unlock" /\ pc'[t] = "idle") =>
             /\ resp' = [op |-> "ctl_unlock", id |-> 0, status |-> "true"]
             /\ af_mode' = "auto"
             /\ locked_lens_position' = "none"
     /\ \A t \in Callers :
          (pc[t] = "af_call" /\ call[t].op = "ctl_state" /\ pc'[t] = "idle") =>
             resp'.status = Snapshot(af_mode, locked_lens_position)
     /\ (locked_lens_position = "none" /\ locked_lens_position' # "none") =>
          /\ resp'.op = "ctl_lock"
          /\ resp'.status = locked_lens_position' ]_vars

\* unlock_focus has returned true on the hardware adapter and get_af_state
\* would report auto with no locked position
C22_Witness ==
  /\ ~use_mock
  /\ is_initialized
  /\ resp = [op |-> "ctl_unlock", id |-> 0, status |-> "true"]
  /\ pc["c1"] = "idle"
  /\ af_mode = "auto"
  /\ locked_lens_position = "none"

\* positions of a caller inside one_shot_af
TriggerLabels == {"af_test", "af_poll", "af_sleep", "af_mock", "af_except"}

\* C23: a trigger call with timeout T always returns; a poll is made only
\* while the time since the start is below T, so success is returned only
\* from such a poll; when the loop test fails (no poll reported the focused
\* state) the call returns (false, T, none), at most one poll and one
\* polling interval after the deadline; the simulator succeeds iff its
\* focusing time is at most T and else returns (false, T, none).
C23_TriggerTimesOut ==
  /\ [][\A t \in Callers :
          /\ (pc[t] = "af_poll") => call[t].elapsed < call[t].timeout
          /\ (pc[t] = "af_test" /\ pc'[t] = "idle") =>
                /\ resp' = [op |-> "ctl_trigger", id |-> 0,
                            status |-> TriggerResult(FALSE, call[t].timeout, "none")]
                /\ call[t].elapsed >= call[t].timeout
                /\ call[t].elapsed < call[t].timeout + MaxPollDuration + PollInterval
          /\ (pc[t] = "af_mock" /\ pc'[t] = "idle" /\ call[t].timeout < MockAfDuration) =>
                resp'.status = TriggerResult(FALSE, call[t].timeout, "none")
          /\ UNCHANGED <<af_mode, locked_lens_position, is_initialized>> ]_vars
  /\ \A t \in SeqCallers : (pc[t] \in TriggerLabels) ~> (pc[t] = "idle")

\* a hardware trigger with the longest short timeout has timed out
C23_Witness ==
  /\ ~use_mock
  /\ pc["c1"] = "idle"
  /\ resp = [op |-> "ctl_trigger", id |-> 0,
             status |-> TriggerResult(FALSE, MaxTimeout, "none")]

\* C24: when a camera call raises inside trigger, lock or unlock, the
\* controller's method still returns to its caller, with (false, 0, none),
\* none and false respectively, and from the raise to the return af_mode and
\* the locked position keep their values.
C24_AdapterExceptionIsFailureValue ==
  [][\A t \in Callers :
       /\ (pc[t] # "af_except" /\ pc'[t] = "af_except") =>
             /\ call'[t] = call[t]
             /\ UNCHANGED <<af_mode, locked_lens_position, is_initialized>>
       /\ (pc[t] = "af_except" /\ call[t].op \in ControllerOps /\ pc'[t] # "af_except") =>
             /\ pc'[t] = "idle"
             /\ resp'.op = call[t].op
             /\ resp'.status =
                  (CASE call[t].op = "ctl_trigger" -> TriggerResult(FALSE, 0, "none")
                     [] call[t].op = "ctl_lock" -> "none"
                     [] call[t].op = "ctl_unlock" -> "false"
                     [] OTHER -> "no such case")
             /\ UNCHANGED <<af_mode, locked_lens_position, is_initialized>> ]_vars

\* set_controls has raised inside unlock_focus on a locked adapter
C24_Witness ==
  /\ pc["c1"] = "af_except"
  /\ call["c1"].op = "ctl_unlock"
  /\ af_mode = "locked"
  /\ locked_lens_position = MockLensPosition

\* C25: when the last request answered is a create that returned 200 and no
\* request is in progress, the created profile is stored with a lens
\* position and is the one current profile: get_current_profile returns it
\* and no other profile is current.
C25_CreatedProfileIsTheCurrentOne ==
  (resp.op = "create" /\ resp.status = "200" /\ \A t \in Callers : pc[t] = "idle") =>
     /\ resp.id \in DOMAIN profiles
     /\ profiles[resp.id].lens_position # "none"
     /\ GetCurrentResults(profiles) = {resp.id}

\* positions of a caller inside create before save_profile has committed
CreateLabels == {"cr_trigger", "cr_lock", "cr_insert", "cr_commit"}

\* C26: a create starts on a store with nothing uncommitted and commits
\* nothing before save_profile's commit; when it is answered 503 (controller
\* uninitialized) or 500 (trigger failed, save failed) the store is the one
\* committed before the call, so no profile was added and the current
\* profile is the one of before; a create rejected with 503 or ended by a
\* failed trigger has not reached lock_focus and leaves af_mode and the
\* locked position alone.
C26_FailedCreateStoresNothing ==
  [][\A t \in Callers :
       /\ (pc[t] = "idle" /\ pc'[t] = "cr_trigger") =>
             /\ profiles = committed
             /\ UNCHANGED <<profiles, committed, af_mode, locked_lens_position>>
       /\ (pc' = pc /\ resp' # resp /\ resp'.op = "create") =>
             /\ resp'.status = "503"
             /\ UNCHANGED <<profiles, committed, af_mode, locked_lens_position>>
       /\ (pc[t] \in {"cr_trigger", "cr_lock", "cr_insert"}) => committed' = committed
       /\ (pc[t] = "cr_trigger") => UNCHANGED <<profiles, af_mode, locked_lens_position>>
       /\ (pc[t] = "cr_trigger" /\ pc'[t] # "cr_lock") =>
             pc'[t] = "idle" /\ resp'.op = "create" /\ resp'.status = "500"
       /\ (pc[t] \in CreateLabels /\ pc'[t] = "idle") =>
             /\ resp'.op = "create" /\ resp'.status = "500"
             /\ profiles' = committed
             /\ committed' = committed
             /\ CurrentRows(profiles') = CurrentRows(committed)
             /\ resp'.id \notin DOMAIN profiles' ]_vars

\* a second create has ended with 500 on a failed save: the first profile
\* is still the stored, current one
C26_Witness ==
  /\ resp.op = "create" /\ resp.status = "500"
  /\ resp.id = 2
  /\ pc["c1"] = "idle"
  /\ DOMAIN profiles = {1}
  /\ CurrentRows(profiles) = {1}
  /\ profiles = committed

\* C27: a select of an id that is not stored is answered 404, and a
\* set_current_profile of such an id returns false from its existence
\* check; neither changes the table, so the rows that were current are
\* still current.
C27_MissingIdIsRejectedUnchanged ==
  [][/\ (pc' = pc /\ resp' # resp /\ resp'.op = "select") =>
          /\ resp'.id \notin DOMAIN profiles
          /\ resp'.status = "404"
          /\ UNCHANGED <<profiles, committed>>
     /\ \A t \in Callers :
          /\ (pc[t] = "idle" /\ pc'[t] = "sc_check") =>
                /\ call'[t].op = "select" => call'[t].id \in DOMAIN profiles
                /\ UNCHANGED <<profiles, committed>>
          /\ (pc[t] = "sc_check" /\ call[t].id \notin DOMAIN profiles /\ pc'[t] # "sc_check") =>
                /\ pc'[t] = "idle"
                /\ resp' = [op |-> call[t].op, id |-> call[t].id, status |-> "false"]
                /\ UNCHANGED <<profiles, committed>>
                /\ CurrentRows(profiles') = CurrentRows(profiles) ]_vars

\* set_current_profile of the id that was never generated has returned
\* false while profile 1 is current
C27_Witness ==
  /\ resp = [op |-> "set_current", id |-> NumProfiles + 1, status |-> "false"]
  /\ pc["c1"] = "idle"
  /\ CurrentRows(profiles) = {1}
  /\ profiles = committed

\* C28: select reaches its re-apply step only from a committed switch, on
\* an initialized hardware adapter and for a profile with a lens position,
\* and then the selected profile is the current one; a select on such an
\* adapter does not answer success without that step; whether the re-apply
\* returns or raises, select answers 200, the table is not touched and the
\* selected profile is still the current one.
C28_ReapplyFailureIsNotFatal ==
  [][\A t \in Callers :
       /\ (pc[t] # "sel_reapply" /\ pc'[t] = "sel_reapply") =>
             /\ pc[t] = "sc_commit" /\ call[t].op = "select"
             /\ ~use_mock /\ is_initialized /\ call[t].lens # "none"
             /\ committed' = profiles'
             /\ CurrentRows(profiles') = {call[t].id}
       /\ (pc[t] = "sc_commit" /\ call[t].op = "select" /\ pc'[t] = "idle") =>
             (use_mock \/ ~is_initialized \/ call[t].lens = "none")
       /\ (pc[t] = "sel_reapply" /\ pc'[t] # "sel_reapply") =>
             /\ pc'[t] = "idle"
             /\ resp' = [op |-> "select", id |-> call[t].id, status |-> "200"]
             /\ UNCHANGED <<profiles, committed>>
             /\ CurrentRows(profiles') = {call[t].id} ]_vars

\* on the hardware adapter, profile 1 has been selected again after
\* profile 2 was created: select answered 200 and profile 1 is current
C28_Witness ==
  /\ ~use_mock
  /\ is_initialized
  /\ resp = [op |-> "select", id |-> 1, status |-> "200"]
  /\ pc["c1"] = "idle"
  /\ DOMAIN profiles = {1, 2}
  /\ CurrentRows(profiles) = {1}

\* the labels at which a caller is inside set_current_profile, past its
\* existence check
SwitchLabels == {"sc_clear", "sc_set", "sc_commit"}

\* C29: when a tick reads the current profile on the shared connection
\* while a set_current_profile of a stored profile is running and a
\* profile is current in the committed table, the SELECT of
\* get_current_profile has a current row to return (the tick is not left
\* with no profile, hence not with profile_id "unknown").
C29_SwitchIsAtomicToTick ==
  [][\A w \in Workers :
       ( /\ wpc[w] = "profile" /\ wpc'[w] = "capture"
         /\ CurrentRows(committed) # {}
         /\ \E t \in Callers : /\ pc[t] \in SwitchLabels
                                /\ call[t].id \in DOMAIN profiles ) =>
            GetCurrentResults(profiles) # {0} ]_vars

(* -------------------- FileStore.query_images_since -------------------- *)

\* timedelta(minutes=1) in microseconds
MicrosPerMinute == 60000000

\* microsecond parts an instant can have: none, or half a second
Micros == {0, 500000}

\* instants of UTC time within the hour: minute and microsecond
Instants == [minute : FirstMinute..MaxMinute, micro : Micros]

Value(i) == i.minute * MicrosPerMinute + i.micro

\* the character code of a decimal digit
Digit(d) == 48 + d

\* datetime.isoformat() of an aware UTC instant, from the minute field on,
\* as character codes: "MM:00+00:00", or "MM:00.ffffff+00:00" when the
\* microsecond is not zero
IsoFormat(i) ==
  <<Digit(i.minute \div 10), Digit(i.minute % 10), 58, 48, 48>>
    \o (IF i.micro = 0
        THEN << >>
        ELSE <<46>> \o [k \in 1..6 |-> Digit((i.micro \div (10 ^ (6 - k))) % 10)])
    \o <<43, 48, 48, 58, 48, 48>>

\* since_time = datetime.now(timezone.utc) - timedelta(minutes=minutes_ago)
SinceTime(now, minutes_ago) == [minute |-> now.minute - minutes_ago, micro |-> now.micro]

\* sqlite compares two TEXT values byte by byte, the shorter first on a tie
StrLess(a, b) ==
  \/ \E k \in 1..Len(a) :
       /\ k <= Len(b)
       /\ a[k] < b[k]
       /\ \A j \in 1..(k - 1) : a[j] = b[j]
  \/ /\ Len(a) < Len(b)
     /\ \A j \in 1..Len(a) : a[j] = b[j]

WhereStrict(ts, since_str) == StrLess(since_str, ts)

\* WHERE ts >= ?
Where(ts, since_str) == ~StrLess(ts, since_str)

\* ORDER BY ts DESC: every order of the rows in which no row precedes a
\* row with a greater ts
OrderByTsDesc(rows) ==
  {s \in [1..Cardinality(rows) -> rows] :
     /\ \A j, k \in DOMAIN s : j # k => s[j] # s[k]
     /\ \A j, k \in DOMAIN s : j < k => ~StrLess(s[j].ts, s[k].ts)}

\* a direct call of insert_image with the ts of instant i
InsertImage(t, i) ==
  /\ pc[t] = "idle"
  /\ Cardinality(images) < MaxImages
  /\ images' = images \cup {[ts |-> IsoFormat(i), profile_id |-> 0, focus_state |-> "unknown"]}
  /\ resp' = [op |-> "insert_image", id |-> 0, status |-> "true"]
  /\ UNCHANGED <<pc, call, store_vars, camera_vars, worker_vars, af_controller, is_running,
                 interval_sec, thread, start_time, lock, total_count, errors,
                 last_capture_time, inference_queue, side_files, ticks>>

\* query_images_since(minutes_ago) called at instant now
QueryImagesSince(t, minutes_ago, now) ==
  /\ pc[t] = "idle"
  /\ now.minute >= minutes_ago
  /\ pc' = [pc EXCEPT ![t] = "q_execute"]
  /\ call' = [call EXCEPT ![t] = [op |-> "query", id |-> minutes_ago, lens |-> "none",
                                  now |-> now, results |-> << >>]]
  /\ UNCHANGED <<resp, store_vars, camera_vars, loop_vars, worker_vars>>

\* the SELECT runs and its rows are collected into results
QueryExecute(t) ==
  /\ pc[t] = "q_execute"
  /\ LET since_str == IsoFormat(SinceTime(call[t].now, call[t].id))
         rows == {r \in images : Where(r.ts, since_str)}
     IN  \E s \in OrderByTsDesc(rows) :
           call' = [call EXCEPT ![t].results = s]
  /\ pc' = [pc EXCEPT ![t] = "q_return"]
  /\ UNCHANGED <<resp, store_vars, camera_vars, loop_vars, worker_vars>>

\* the SELECT raises: the error is logged and [] is returned
QueryFail(t) ==
  /\ pc[t] = "q_execute"
  /\ faults < MaxFaults
  /\ faults' = faults + 1
  /\ Return(t, ToString(0))
  /\ UNCHANGED <<profiles, committed, next_id, camera_vars, loop_vars, worker_vars>>

\* return results
QueryReturn(t) ==
  /\ pc[t] = "q_return"
  /\ Return(t, ToString(Len(call[t].results)))
  /\ UNCHANGED <<store_vars, camera_vars, loop_vars, worker_vars>>

NextQuery ==
  \E t \in SeqCallers :
    \/ \E i \in Instants : InsertImage(t, i)
    \/ \E m \in 1..MaxMinutesAgo, now \in Instants : QueryImagesSince(t, m, now)
    \/ QueryExecute(t)
    \/ QueryFail(t)
    \/ QueryReturn(t)

SpecQuery == Init /\ [][NextQuery]_vars

\* the instant a stored ts was formatted from, in microseconds
TimeOf(ts) == Value(CHOOSE i \in Instants : IsoFormat(i) = ts)

\* C30: when query_images_since(m) called at instant now is about to
\* return, its results are exactly the stored rows whose instant is not
\* before now - m minutes, each once, and no row in the list comes before a
\* row of a later instant.
C30_QueryReturnsRowsSinceCutoff ==
  \A t \in Callers :
    pc[t] = "q_return" =>
      LET results == call[t].results
          cutoff == Value(call[t].now) - call[t].id * MicrosPerMinute
          recent == {r \in images : TimeOf(r.ts) >= cutoff}
      IN  /\ {results[k] : k \in DOMAIN results} = recent
          /\ Len(results) = Cardinality(recent)
          /\ \A j, k \in DOMAIN results :
                j < k => TimeOf(results[j].ts) >= TimeOf(results[k].ts)

\* a query with minutes_ago = 2 at minute 10 and a half second is about
\* to return two of three stored rows, the newer first: the row exactly at
\* the cutoff and the row of minute 10 without microseconds; the row one
\* half second before the cutoff is left out
C30_Witness ==
  /\ pc["c1"] = "q_return"
  /\ call["c1"].id = 2
  /\ call["c1"].now = [minute |-> 10, micro |-> 500000]
  /\ images = {[ts |-> IsoFormat(i), profile_id |-> 0, focus_state |-> "unknown"] :
                 i \in {[minute |-> 8, micro |-> 0], [minute |-> 8, micro |-> 500000],
                        [minute |-> 10, micro |-> 0]}}
  /\ Len(call["c1"].results) = 2
  /\ call["c1"].results[1].ts = IsoFormat([minute |-> 10, micro |-> 0])
  /\ call["c1"].results[2].ts = IsoFormat([minute |-> 8, micro |-> 500000])

\* C31: every row of the images table has its side-file, and a tick whose
\* save leaves the side-files as they were (the side-file write failed)
\* adds no row.
C31_RowHasSideFile ==
  /\ [](\A r \in images : r.ts \in side_files)
  /\ [][\A w \in Workers :
          (wpc[w] = "save" /\ wpc'[w] # "save" /\ wts[w] \notin side_files') =>
             images' = images ]_vars

\* two ticks have been counted: one stored its row and side-file, the
\* side-file write of the other failed and it left neither
C31_Witness ==
  /\ total_count = 2
  /\ Cardinality(images) = 1
  /\ Cardinality(side_files) = 1
  /\ \A r \in images : r.ts \in side_files

\* C32: a statement of a store write that raises (a write conflict) is not
\* surfaced at once: the caller is still inside its operation after the
\* raise, to run the write again.
C32_ConflictIsRetried ==
  [][\A t \in Callers :
       (pc[t] # "idle" /\ faults' = faults + 1) => pc'[t] # "idle" ]_vars

\* C33: when capture_and_get_clarity returns the image of a tick that read
\* a current profile, the focus_state the tick is going to record is the
\* controller's af_mode at that moment.
C33_FocusStateIsControllerMode ==
  [][\A w \in Workers :
       ( /\ wpc[w] = "capturing" /\ wpc'[w] = "save"
         /\ wprofile[w] # 0 ) =>
            FocusStateOf(wprofile[w]) = af_mode ]_vars

\* C34: on the initialized hardware adapter, whenever no call is in
\* progress, the state get_af_state reports matches the controls the camera
\* was last commanded with: locked at p means Manual at p, auto means Auto.
C34_StateMatchesCommandedMode ==
  (~use_mock /\ is_initialized /\ \A t \in Callers : pc[t] = "idle") =>
     /\ (af_mode = "locked" /\ locked_lens_position # "none") =>
           picam_controls = [AfMode |-> "Manual", LensPosition |-> locked_lens_position]
     /\ (af_mode = "auto") => picam_controls.AfMode = "Auto"

\* C35: a set_current_profile(id) whose commit returns leaves id current in
\* the committed table, and the save of a capture tick, whether its insert
\* commits or rolls back, changes neither the profiles table seen through
\* the connection nor the committed one.
C35_SwitchSurvivesImageInsert ==
  [][/\ \A t \in Callers :
          (pc[t] = "sc_commit" /\ pc'[t] # "sc_commit" /\ faults' = faults) =>
             call[t].id \in CurrentRows(committed')
     /\ \A w \in Workers :
          (wpc[w] = "save" /\ wpc'[w] # "save") =>
             UNCHANGED <<profiles, committed>> ]_vars

\* one caller creating and deleting profiles while the capture loop runs
NextRef ==
  \/ \E t \in SeqCallers :
       \/ StartCapture(t, DefaultInterval)
       \/ Start(t)
       \/ CreateBegin(t) \/ CreateTriggerEnd(t) \/ CreateLockEnd(t)
       \/ SaveInsert(t) \/ SaveCommit(t)
       \/ ScCheck(t) \/ ScClear(t) \/ ScSet(t) \/ ScCommit(t)
       \/ \E id \in RequestIds : DeleteCheck(t, id)
       \/ DeleteExec(t) \/ DeleteCommit(t)
  \/ \E w \in Workers : WorkerStep(w)

SpecRef == Init /\ [][NextRef]_vars

\* C36: the profile_id of every stored image record is "unknown" (0) or
\* the id of a profile that is in the profiles table, as seen through the
\* connection or as committed.
C36_ImagesReferToStoredProfiles ==
  \A r \in images :
    r.profile_id = 0 \/ r.profile_id \in (DOMAIN profiles) \cup (DOMAIN committed)

(* ------------------------- CaptureLoop.status -------------------------- *)

\* GET /capture/status: the handler is entered
StatusCall(t) ==
  /\ pc[t] = "idle"
  /\ pc' = [pc EXCEPT ![t] = "status_call"]
  /\ call' = [call EXCEPT ![t] = [op |-> "status", id |-> 0, lens |-> "none"]]
  /\ UNCHANGED <<resp, store_vars, camera_vars, loop_vars, worker_vars>>

StatusUnderLock(t) ==
  /\ pc[t] = "status_call"
  /\ lock = "none"
  /\ pc' = [pc EXCEPT ![t] = "idle"]
  /\ call' = [call EXCEPT ![t] = NoCall]
  /\ resp' = [op |-> "status", id |-> total_count,
              status |-> IF is_running THEN "running" ELSE "stopped"]
  /\ UNCHANGED <<store_vars, camera_vars, loop_vars, worker_vars>>

\* the status property reads the fields of the loop without taking
\* self._lock; the answer carries total_count and is_running
Status(t) ==
  /\ pc[t] = "status_call"
  /\ pc' = [pc EXCEPT ![t] = "idle"]
  /\ call' = [call EXCEPT ![t] = NoCall]
  /\ resp' = [op |-> "status", id |-> total_count,
              status |-> IF is_running THEN "running" ELSE "stopped"]
  /\ UNCHANGED <<store_vars, camera_vars, loop_vars, worker_vars>>

\* one caller stopping the loop while another starts it and reads its
\* status; every thread that can take a step eventually takes one
NextLock ==
  \/ StopCapture("c1") \/ Stop("c1") \/ StopJoined("c1") \/ StopJoinTimeout("c1")
  \/ StartCapture("c2", DefaultInterval) \/ Start("c2")
  \/ StatusCall("c2") \/ Status("c2")
  \/ \E w \in Workers : WorkerStep(w)

SpecLock ==
  /\ Init /\ [][NextLock]_vars /\ WorkerFairness
  /\ WF_vars(Stop("c1") \/ StopJoined("c1") \/ StopJoinTimeout("c1"))
  /\ WF_vars(Start("c2") \/ Status("c2"))

\* C37: no step of a worker takes or releases the lock; a status read that
\* has been entered can always complete, whoever holds the lock; and every
\* stop(), start() and status read that has been entered returns.
C37_NoDeadlock ==
  /\ [][(wpc' # wpc /\ pc' = pc) => lock' = lock]_vars
  /\ [](pc["c2"] = "status_call" => ENABLED Status("c2"))
  /\ (pc["c1"] # "idle") ~> (pc["c1"] = "idle")
  /\ (pc["c2"] # "idle") ~> (pc["c2"] = "idle")

\* while the first stop() holds the lock and joins the worker, a status
\* read has been answered (stopped) and a start has been entered
C37_Witness ==
  /\ pc["c1"] = "joining"
  /\ lock = "c1"
  /\ pc["c2"] = "start_call"
  /\ resp.op = "status" /\ resp.status = "stopped" /\ start_time = 1

\* one caller starting, stopping and restarting the loop and reading its
\* status between the calls
NextCount == NextExit \/ \E t \in SeqCallers : StatusCall(t) \/ Status(t)

SpecCount == Init /\ [][NextCount]_vars

\* C38: total_count and errors never decrease; a step that changes one of
\* them is a step of a worker and adds one to exactly one of the two; no
\* step of a caller (start, stop, status) changes either; and of two status
\* answers in a row the later total_count is not the lower.
C38_CountersAccumulate ==
  [][/\ total_count' >= total_count
     /\ errors' >= errors
     /\ (total_count' # total_count \/ errors' # errors) =>
           /\ total_count' + errors' = total_count + errors + 1
           /\ pc' = pc
     /\ (pc' # pc) => UNCHANGED <<total_count, errors>>
     /\ (resp.op = "status" /\ resp'.op = "status") => resp'.id >= resp.id ]_vars

\* after a restart the status answer of the running loop carries a count
\* and the error counter is not zero
C38_Witness ==
  /\ start_time = 2
  /\ is_running
  /\ total_count = 1
  /\ errors = 1
  /\ resp = [op |-> "status", id |-> 1, status |-> "running"]

\* C39: when delete(id) returns success, id is not a stored profile, every
\* other stored profile is stored as it was, so the current profile is the
\* same one, no profile has appeared, and no step of the delete changes
\* the image records.
C39_DeleteRemovesExactlyThat ==
  [][\A t \in SeqCallers :
       /\ (pc[t] \in {"del_exec", "del_commit"} /\ pc'[t] # pc[t]) => images' = images
       /\ (pc[t] = "del_commit" /\ pc'[t] = "idle" /\ resp'.status = "200") =>
             /\ call[t].id \notin DOMAIN committed'
             /\ DOMAIN committed' \subseteq DOMAIN committed
             /\ \A i \in (DOMAIN committed) \ {call[t].id} :
                   i \in DOMAIN committed' /\ committed'[i] = committed[i]
             /\ CurrentRows(committed') = CurrentRows(committed) ]_vars

(* --------------------------- process shutdown ------------------------- *)

\* lifespan after the yield: capture_loop.stop() if the loop is running,
\* else straight on to the controller
LifespanStop(t) ==
  /\ pc[t] = "idle"
  /\ resp.op # "loop.stop"
  /\ IF is_running
     THEN /\ pc' = [pc EXCEPT ![t] = "stop_call"]
          /\ call' = [call EXCEPT ![t] = [op |-> "loop.stop", id |-> 0, lens |-> "none"]]
          /\ UNCHANGED resp
     ELSE Goto(t, "sd_camera")
  /\ UNCHANGED <<store_vars, camera_vars, loop_vars, worker_vars>>

\* close_camera_controller(), once stop() has returned to the lifespan or
\* was not called: the adapter is closed and dropped, the flag is cleared;
\* the loop keeps its reference to the controller object
CloseCameraController(t) ==
  /\ pc[t] = "sd_camera" \/ (pc[t] = "idle" /\ resp.op = "loop.stop")
  /\ is_initialized' = FALSE
  /\ af_mode' = "auto"
  /\ locked_lens_position' = "none"
  /\ picam_controls' = SetControls("Auto", "none")
  /\ Goto(t, "sd_db")
  /\ UNCHANGED <<use_mock, store_vars, loop_vars, worker_vars>>

\* close_db_connection(): the connection is closed, which drops what was
\* not committed, and _db_connection is None; the next self.conn of a
\* repository or of the file store opens a new connection (db.py 109-110)
CloseDbConnection(t) ==
  /\ pc[t] = "sd_db"
  /\ profiles' = committed
  /\ Goto(t, "sd_done")
  /\ UNCHANGED <<committed, next_id, faults, camera_vars, loop_vars, worker_vars>>

\* the loop is started through the route, then the process is shut down
NextShutdown ==
  \/ \E t \in SeqCallers :
       \/ StartCapture(t, DefaultInterval)
       \/ Start(t)
       \/ LifespanStop(t)
       \/ Stop(t) \/ StopJoined(t) \/ StopJoinTimeout(t)
       \/ CloseCameraController(t)
       \/ CloseDbConnection(t)
  \/ \E w \in Workers : WorkerStep(w)

SpecShutdown == Init /\ [][NextShutdown]_vars

\* C40: the controller and the connection are closed only with the loop's
\* running flag cleared, and once both are closed no worker enters a
\* capture, writes a placeholder file, writes a side-file or inserts an
\* image row (which would open the store again).
C40_NoTickAfterShutdown ==
  [][\A t \in SeqCallers :
       /\ (pc'[t] \in {"sd_db", "sd_done"} /\ pc'[t] # pc[t]) => ~is_running
       /\ (pc[t] = "sd_done") =>
             /\ images' = images
             /\ side_files' = side_files
             /\ \A w \in Workers :
                   wpc[w] = "capture" => wpc'[w] \notin {"capturing", "save"} ]_vars

====
